---- MODULE Spec2Model ----
(***************************************************************************)
(* Model of src/mastra/tools/adguard-tools.ts: the in-memory access token, *)
(* refreshAccessToken, callAdGuardAPI (bearer call with one refresh and    *)
(* one retry on 401), getQueryLogTool.execute and                          *)
(* unblockDomainTool.execute, run against the AdGuard DNS provider.        *)
(* The state of an invocation is indexed by Procs; Spec runs the           *)
(* invocations one after the other.                                        *)
(*                                                                         *)
(* Every `await fetch(...)` is two steps: the provider answers the request *)
(* that is in flight (Provider* / NetworkError), and the invocation        *)
(* resumes with the answer and runs to its next await or to its end        *)
(* (AfterFirstFetch, AfterRefresh, AfterRetry).                            *)
(***************************************************************************)
EXTENDS Integers, Sequences, FiniteSets, TLC

VARIABLES
    ADGUARD_DNS_SERVER_ID,   \* line 5, "" when the variable is not set
    ADGUARD_REFRESH_TOKEN,   \* line 6, "" when the variable is not set
    currentAccessToken,      \* line 9
    remote,                  \* the provider's user_rules_settings of the server
    pc,                      \* per invocation: the await it is suspended at
    site,                    \* per invocation: which callAdGuardAPI call is running
    url,                     \* callAdGuardAPI's url
    requestOptions,          \* callAdGuardAPI's requestOptions
    net,                     \* the request or response in flight
    http,                    \* the fetch calls of the current invocation, with the status answered
    context,                 \* the tool's input
    data,                    \* getQueryLogTool: the parsed page
    currentSettings,         \* unblockDomainTool: dnsServer.settings
    newRules,                \* unblockDomainTool
    alreadyWhitelisted,      \* unblockDomainTool
    result,                  \* what execute returned or threw
    interfered,              \* history: a PUT of another invocation was applied since this one's last read
    idem,                    \* history: this unblock repeats the successful unblock before it, undisturbed
    held                     \* history: how many queries the provider held in the window this invocation asked for

transportVars == <<pc, site, url, requestOptions, net, http>>
localVars == <<context, data, currentSettings, newRules, alreadyWhitelisted>>
envVars == <<ADGUARD_DNS_SERVER_ID, ADGUARD_REFRESH_TOKEN>>
historyVars == <<interfered, idem, held>>
vars == <<ADGUARD_DNS_SERVER_ID, ADGUARD_REFRESH_TOKEN, currentAccessToken, remote,
          pc, site, url, requestOptions, net, http,
          context, data, currentSettings, newRules, alreadyWhitelisted, result,
          interfered, idem, held>>

----------------------------------------------------------------------------
(* Bounds *)

MaxDomains == 2      \* longest input list of unblock
MaxRules == 3        \* unblock is not started when it would make the remote list longer than this
MaxItems == 2        \* longest query-log window the provider answers with

\* the tool invocations that may overlap
Procs == {"c1", "c2"}

----------------------------------------------------------------------------
(* Program constants and pure helpers *)

ADGUARD_API_BASE == "https://api.adguard-dns.io"

QUERY_LIMIT == 200

Undefined == "undefined"

\* line 203
WhitelistRule(domain) == "@@||" \o domain \o "^"

\* Array.prototype.includes on an array of strings
Includes(arr, x) == \E i \in 1..Len(arr) : arr[i] = x

\* Array.prototype.join(', ')
RECURSIVE Join(_)
Join(arr) ==
    IF arr = <<>> THEN ""
    ELSE IF Len(arr) = 1 THEN arr[1]
    ELSE arr[1] \o ", " \o Join(Tail(arr))

\* Response.ok
Ok(status) == status >= 200 /\ status <= 299

StatusText(status) ==
    CASE status = 200 -> "OK"
      [] status = 401 -> "Unauthorized"
      [] status = 404 -> "Not Found"
      [] status = 500 -> "Internal Server Error"
      [] OTHER -> ""

Bearer(token) == "Bearer " \o token

----------------------------------------------------------------------------
(* Values of the environment: inputs, provider data, messages *)

Domains == {"a.com", "b.com"}

RECURSIVE SeqsUpTo(_, _)
SeqsUpTo(S, n) ==
    IF n = 0 THEN {<<>>}
    ELSE LET shorter == SeqsUpTo(S, n - 1)
         IN  shorter \cup {Append(s, x) : s \in {t \in shorter : Len(t) = n - 1}, x \in S}

DomainLists == SeqsUpTo(Domains, MaxDomains)

\* z.number().default(10)
Minutes == {10, 30}

\* Date.now()
NowMillis == 3600000

Statuses == {200, 401, 404, 500}

AccessTokens == {"at1", "at2"}

\* the user rules the provider may hold before the first call: none, a
\* whitelist rule, a blocking rule of a domain with the whitelist rule of
\* another, a duplicated rule; filtering enabled or not
InitialRemotes ==
    { [enabled |-> TRUE, rules |-> <<>>],
      [enabled |-> FALSE, rules |-> <<"@@||a.com^">>],
      [enabled |-> FALSE, rules |-> <<"||a.com^", "@@||b.com^">>],
      [enabled |-> TRUE, rules |-> <<"@@||b.com^", "@@||b.com^">>] }

\* QueryLogItem, lines 11-22; an absent optional field is Undefined, and an
\* absent filtering_info reads as three absent fields under `?.`
Items ==
    { [domain |-> "nflxvideo.net", time_iso |-> "2025-01-01T00:05:00Z",
       filtering_info |-> [filtering_status |-> "REQUEST_BLOCKED",
                           filter_rule |-> "||nflxvideo.net^", filter_id |-> "f1"]],
      [domain |-> "cdn.example", time_iso |-> "2025-01-01T00:04:00Z",
       filtering_info |-> [filtering_status |-> "RESPONSE_BLOCKED",
                           filter_rule |-> Undefined, filter_id |-> Undefined]],
      [domain |-> "example.org", time_iso |-> "2025-01-01T00:03:00Z",
       filtering_info |-> [filtering_status |-> "NONE",
                           filter_rule |-> Undefined, filter_id |-> Undefined]],
      [domain |-> "plain.example", time_iso |-> "2025-01-01T00:02:00Z",
       filtering_info |-> [filtering_status |-> Undefined,
                           filter_rule |-> Undefined, filter_id |-> Undefined]] }

\* a window that holds one query more than a page carries: the same blocked
\* query over and over
LongWindow ==
    [k \in 1..(QUERY_LIMIT + 1) |->
        [domain |-> "nflxvideo.net", time_iso |-> "2025-01-01T00:05:00Z",
         filtering_info |-> [filtering_status |-> "REQUEST_BLOCKED",
                             filter_rule |-> "||nflxvideo.net^", filter_id |-> "f1"]]]

\* the windows the provider may hold when it is asked: every short one, and
\* one longer than the limit of line 140
Windows == SeqsUpTo(Items, MaxItems) \cup {LongWindow}

NoMsg == [kind |-> "none"]

Rejected == [kind |-> "rejected"]

Request(u, options) == [kind |-> "request", url |-> u, options |-> options]

Response(status, body) ==
    [kind |-> "response", status |-> status, statusText |-> StatusText(status), body |-> body]

NoBody == [none |-> TRUE]

NoResult == [type |-> "none"]

\* a thrown Error
Error(message) == [type |-> "error", message |-> message]

\* currentSettings before line 196 ran
NoSettings == [user_rules_settings |-> NoBody]

NoContext == [tool |-> "none"]

\* one fetch call as the history keeps it: status 0 while the request is in
\* flight, -1 when fetch rejected; issued is the access token a 2xx answer of
\* the token endpoint carried
Exchange(u, options) ==
    [url |-> u, method |-> options.method, Authorization |-> options.headers.Authorization,
     body |-> options.body, status |-> 0, issued |-> Undefined]

----------------------------------------------------------------------------
(* Initial state: the module has been loaded, no tool has been invoked *)

Init ==
    /\ ADGUARD_DNS_SERVER_ID \in {"", "srv1"}
    /\ ADGUARD_REFRESH_TOKEN \in {"", "rt0"}
    /\ currentAccessToken \in {"", "at0"}
    /\ remote \in InitialRemotes
    /\ pc = [p \in Procs |-> "idle"]
    /\ site = [p \in Procs |-> "none"]
    /\ url = [p \in Procs |-> ""]
    /\ requestOptions = [p \in Procs |-> NoBody]
    /\ net = [p \in Procs |-> NoMsg]
    /\ http = [p \in Procs |-> <<>>]
    /\ context = [p \in Procs |-> NoContext]
    /\ data = [p \in Procs |-> NoBody]
    /\ currentSettings = [p \in Procs |-> NoSettings]
    /\ newRules = [p \in Procs |-> <<>>]
    /\ alreadyWhitelisted = [p \in Procs |-> <<>>]
    /\ result = [p \in Procs |-> NoResult]
    /\ interfered = [p \in Procs |-> FALSE]
    /\ idem = [p \in Procs |-> FALSE]
    /\ held = [p \in Procs |-> 0]

----------------------------------------------------------------------------
(* Steps shared by the handlers *)

\* execute returns r or throws it: the invocation is over
Finish(p, r) ==
    /\ pc' = [pc EXCEPT ![p] = "done"]
    /\ net' = [net EXCEPT ![p] = NoMsg]
    /\ result' = [result EXCEPT ![p] = r]

\* `await fetch(u, options)`: the request leaves and the invocation is
\* suspended at the await named by where
Send(p, where, u, options, log) ==
    /\ pc' = [pc EXCEPT ![p] = where]
    /\ net' = [net EXCEPT ![p] = Request(u, options)]
    /\ http' = [http EXCEPT ![p] = Append(log, Exchange(u, options))]

\* callAdGuardAPI up to its first await, lines 81-100; options.headers is
\* never passed by the two tools
\* callAdGuardAPI up to its first await, with lines 85-87 missing: the request
\* goes out with an empty bearer token
callAdGuardAPINoTokenTest(p, s, u, options, log) ==
    LET ro == [method |-> options.method,
               body |-> options.body,
               headers |-> [ContentType |-> "application/json",
                            Authorization |-> Bearer(currentAccessToken)]]
    IN  /\ site' = [site EXCEPT ![p] = s]
        /\ url' = [url EXCEPT ![p] = u]
        /\ requestOptions' = [requestOptions EXCEPT ![p] = ro]
        /\ Send(p, "fetch1", u, ro, log)
        /\ result' = [result EXCEPT ![p] = NoResult]

callAdGuardAPI(p, s, u, options, log) ==
    IF currentAccessToken = ""
    THEN /\ Finish(p, Error("ADGUARD_API_TOKEN environment variable is not set"))
         /\ http' = [http EXCEPT ![p] = log]
         /\ UNCHANGED <<site, url, requestOptions>>
    ELSE LET ro == [method |-> options.method,
                    body |-> options.body,
                    headers |-> [ContentType |-> "application/json",
                                 Authorization |-> Bearer(currentAccessToken)]]
         IN  /\ site' = [site EXCEPT ![p] = s]
             /\ url' = [url EXCEPT ![p] = u]
             /\ requestOptions' = [requestOptions EXCEPT ![p] = ro]
             /\ Send(p, "fetch1", u, ro, log)
             /\ result' = [result EXCEPT ![p] = NoResult]

\* refreshAccessToken up to its await, lines 49-62
refreshAccessToken(p) ==
    IF ADGUARD_REFRESH_TOKEN = ""
    THEN /\ Finish(p, Error("ADGUARD_REFRESH_TOKEN environment variable is not set. Cannot refresh token."))
         /\ UNCHANGED http
    ELSE /\ Send(p, "refresh", ADGUARD_API_BASE \o "/oapi/v1/oauth_token",
                 [method |-> "POST",
                  body |-> [refresh_token |-> ADGUARD_REFRESH_TOKEN],
                  headers |-> [ContentType |-> "application/json", Authorization |-> Undefined]],
                 http[p])
         /\ UNCHANGED result

----------------------------------------------------------------------------
(* getQueryLogTool, lines 120-168 *)

QueryLogUrl(minutes) ==
    ADGUARD_API_BASE \o "/oapi/v1/query_log?time_from_millis="
        \o ToString(NowMillis - (minutes * 60 * 1000))
        \o "&time_to_millis=" \o ToString(NowMillis)
        \o "&limit=" \o ToString(QUERY_LIMIT)

\* the filter with line 154 missing
IsBlockedRequestOnly(item) ==
    item.filtering_info.filtering_status = "REQUEST_BLOCKED"

\* the filter of lines 152-155
IsBlocked(item) ==
    \/ item.filtering_info.filtering_status = "REQUEST_BLOCKED"
    \/ item.filtering_info.filtering_status = "RESPONSE_BLOCKED"

\* the map of lines 156-161
Summary(item) ==
    [domain |-> item.domain,
     blocked_at |-> item.time_iso,
     filter_rule |-> item.filtering_info.filter_rule,
     filter_id |-> item.filtering_info.filter_id]

\* lines 151-161
BlockedDomains(items) ==
    LET kept == SelectSeq(items, IsBlocked)
    IN  [k \in 1..Len(kept) |-> Summary(kept[k])]

\* line 165
TotalQueries(items) == Len(items)

\* execute up to the await of callAdGuardAPI, lines 135-142
GetQueryLog(p, minutes) ==
    /\ pc[p] \in {"idle", "done"}
    /\ context' = [context EXCEPT ![p] = [tool |-> "get-adguard-query-log", minutes |-> minutes]]
    /\ data' = [data EXCEPT ![p] = NoBody]
    /\ currentSettings' = [currentSettings EXCEPT ![p] = NoSettings]
    /\ newRules' = [newRules EXCEPT ![p] = <<>>]
    /\ alreadyWhitelisted' = [alreadyWhitelisted EXCEPT ![p] = <<>>]
    /\ idem' = [idem EXCEPT ![p] = FALSE]
    /\ held' = [held EXCEPT ![p] = 0]
    /\ UNCHANGED interfered
    /\ callAdGuardAPI(p, "query_log", QueryLogUrl(minutes), [method |-> "GET", body |-> NoBody], <<>>)
    /\ UNCHANGED <<envVars, currentAccessToken, remote>>

\* execute after callAdGuardAPI returned response, lines 144-166
QueryLogReturned(p, response) ==
    /\ IF ~Ok(response.status)
       THEN /\ Finish(p, Error("AdGuard API error: " \o ToString(response.status)
                                   \o " " \o response.statusText))
            /\ UNCHANGED data
       ELSE /\ data' = [data EXCEPT ![p] = response.body]
            /\ Finish(p, [type |-> "ok",
                          blocked_domains |-> BlockedDomains(response.body.items),
                          total_queries |-> TotalQueries(response.body.items)])
    /\ UNCHANGED <<site, url, requestOptions, http, context, currentSettings, newRules,
                   alreadyWhitelisted, historyVars>>

----------------------------------------------------------------------------
(* unblockDomainTool, lines 170-250 *)

ServerUrl == ADGUARD_API_BASE \o "/oapi/v1/dns_servers/" \o ADGUARD_DNS_SERVER_ID

\* the loop with line 205 testing the bare domain, not the rule built from it
RECURSIVE PartitionBareLookup(_, _, _, _)
PartitionBareLookup(domains, rules, nr, aw) ==
    IF domains = <<>>
    THEN [newRules |-> nr, alreadyWhitelisted |-> aw]
    ELSE LET whitelistRule == WhitelistRule(Head(domains))
         IN  IF Includes(rules, Head(domains))
             THEN PartitionBareLookup(Tail(domains), rules, nr, Append(aw, Head(domains)))
             ELSE PartitionBareLookup(Tail(domains), rules, Append(nr, whitelistRule), aw)

\* the loop with line 206 putting the domain in front (unshift for push)
RECURSIVE PartitionUnshift(_, _, _, _)
PartitionUnshift(domains, rules, nr, aw) ==
    IF domains = <<>>
    THEN [newRules |-> nr, alreadyWhitelisted |-> aw]
    ELSE LET whitelistRule == WhitelistRule(Head(domains))
         IN  IF Includes(rules, whitelistRule)
             THEN PartitionUnshift(Tail(domains), rules, nr, <<Head(domains)>> \o aw)
             ELSE PartitionUnshift(Tail(domains), rules, Append(nr, whitelistRule), aw)

\* the loop of lines 199-210, started with two empty arrays
RECURSIVE Partition(_, _, _, _)
Partition(domains, rules, nr, aw) ==
    IF domains = <<>>
    THEN [newRules |-> nr, alreadyWhitelisted |-> aw]
    ELSE LET whitelistRule == WhitelistRule(Head(domains))
         IN  IF Includes(rules, whitelistRule)
             THEN Partition(Tail(domains), rules, nr, Append(aw, Head(domains)))
             ELSE Partition(Tail(domains), rules, Append(nr, whitelistRule), aw)

\* lines 212-220 missing: the write is always made
NeverNothingToAdd(nr) == FALSE

\* line 213
NothingToAdd(nr) == Len(nr) = 0

\* line 223 with the two spreads swapped
UpdatedRulesPrepend(rules, nr) == nr \o rules

\* line 223
UpdatedRules(rules, nr) == rules \o nr

\* the PUT body with line 232 spreading the settings read only: the rules go
\* back as they came
PutBodyRulesRead(settings, updatedRules) ==
    [user_rules_settings |-> [enabled |-> settings.user_rules_settings.enabled,
                              rules |-> settings.user_rules_settings.rules]]

\* the PUT body with line 231 writing `enabled: true`
PutBodyEnables(settings, updatedRules) ==
    [user_rules_settings |-> [enabled |-> TRUE, rules |-> updatedRules]]

\* the PUT body, lines 229-234
PutBody(settings, updatedRules) ==
    [user_rules_settings |-> [enabled |-> settings.user_rules_settings.enabled,
                              rules |-> updatedRules]]

\* the domains, as often as they are listed, that have no whitelist rule now
Missing(domains) == SelectSeq(domains, LAMBDA d : ~Includes(remote.rules, WhitelistRule(d)))

\* unblock(domains) is called right after a successful unblock of the same
\* domains by the same caller
Repeats(p, domains) ==
    /\ pc[p] = "done"
    /\ context[p] = [tool |-> "unblock-adguard-domain", domains |-> domains]
    /\ result[p].type = "ok"

\* execute up to the await of the first callAdGuardAPI, lines 182-189
UnblockDomain(p, domains) ==
    /\ pc[p] \in {"idle", "done"}
    /\ Len(remote.rules) + Len(Missing(domains)) <= MaxRules
    /\ context' = [context EXCEPT ![p] = [tool |-> "unblock-adguard-domain", domains |-> domains]]
    /\ data' = [data EXCEPT ![p] = NoBody]
    /\ currentSettings' = [currentSettings EXCEPT ![p] = NoSettings]
    /\ newRules' = [newRules EXCEPT ![p] = <<>>]
    /\ alreadyWhitelisted' = [alreadyWhitelisted EXCEPT ![p] = <<>>]
    /\ idem' = [idem EXCEPT ![p] = Repeats(p, domains)]
    /\ held' = [held EXCEPT ![p] = 0]
    /\ UNCHANGED interfered
    /\ IF ADGUARD_DNS_SERVER_ID = ""
       THEN /\ Finish(p, Error("ADGUARD_DNS_SERVER_ID environment variable is not set"))
            /\ http' = [http EXCEPT ![p] = <<>>]
            /\ UNCHANGED <<site, url, requestOptions>>
       ELSE callAdGuardAPI(p, "get", ServerUrl, [method |-> "GET", body |-> NoBody], <<>>)
    /\ UNCHANGED <<envVars, currentAccessToken, remote>>

\* execute after the first callAdGuardAPI returned response, lines 191-235
GetReturned(p, response) ==
    IF ~Ok(response.status)
    THEN /\ Finish(p, Error("Failed to get DNS server: " \o ToString(response.status)
                                \o " " \o response.statusText))
         /\ UNCHANGED <<site, url, requestOptions, http, localVars, historyVars>>
    ELSE LET settings == response.body.settings
             rules == settings.user_rules_settings.rules
             part == Partition(context[p].domains, rules, <<>>, <<>>)
             updatedRules == UpdatedRules(rules, part.newRules)
         IN  /\ currentSettings' = [currentSettings EXCEPT ![p] = settings]
             /\ newRules' = [newRules EXCEPT ![p] = part.newRules]
             /\ alreadyWhitelisted' = [alreadyWhitelisted EXCEPT ![p] = part.alreadyWhitelisted]
             /\ UNCHANGED <<context, data, historyVars>>
             /\ IF NothingToAdd(part.newRules)
                THEN /\ Finish(p, [type |-> "ok",
                                   success |-> TRUE,
                                   message |-> "All " \o ToString(Len(context[p].domains))
                                                  \o " domain(s) are already whitelisted",
                                   rules_added |-> <<>>,
                                   already_whitelisted |-> part.alreadyWhitelisted])
                     /\ UNCHANGED <<site, url, requestOptions, http>>
                ELSE callAdGuardAPI(p, "put", ServerUrl \o "/settings",
                                    [method |-> "PUT", body |-> PutBody(settings, updatedRules)],
                                    http[p])

\* line 241
\* line 241 with the domains to name taken once each
NewDomainsOnce(domains, aw) ==
    LET kept == SelectSeq(domains, LAMBDA d : ~Includes(aw, d))
        first(i) == \A j \in 1..(i - 1) : kept[j] # kept[i]
        RECURSIVE From(_)
        From(i) == IF i > Len(kept) THEN <<>>
                   ELSE IF first(i) THEN <<kept[i]>> \o From(i + 1) ELSE From(i + 1)
    IN  From(1)

\* line 241
NewDomains(domains, aw) == SelectSeq(domains, LAMBDA d : ~Includes(aw, d))

\* execute after the second callAdGuardAPI returned response, lines 237-248
PutReturned(p, response) ==
    /\ IF ~Ok(response.status)
       THEN Finish(p, Error("Failed to update settings: " \o ToString(response.status)
                                   \o " " \o response.statusText))
       ELSE Finish(p, [type |-> "ok",
                          success |-> TRUE,
                          message |-> "Successfully added " \o ToString(Len(newRules[p]))
                                         \o " whitelist rule(s) for: "
                                         \o Join(NewDomains(context[p].domains, alreadyWhitelisted[p])),
                          rules_added |-> newRules[p],
                          already_whitelisted |-> alreadyWhitelisted[p]])
    /\ UNCHANGED <<site, url, requestOptions, http, localVars, historyVars>>

----------------------------------------------------------------------------
(* callAdGuardAPI and refreshAccessToken after their awaits *)

\* callAdGuardAPI returns response to the tool that called it, line 117
Returned(p, response) ==
    CASE site[p] = "query_log" -> QueryLogReturned(p, response)
      [] site[p] = "get" -> GetReturned(p, response)
      [] site[p] = "put" -> PutReturned(p, response)

\* fetch rejected: the TypeError leaves callAdGuardAPI and execute
FetchFailed(p) ==
    /\ Finish(p, Error("fetch failed"))
    /\ UNCHANGED <<site, url, requestOptions, http, localVars, historyVars, currentAccessToken>>

\* the first response arrives, with line 103 testing `status >= 401`
AfterFirstFetchAnyFailure(p) ==
    /\ pc[p] = "fetch1"
    /\ net[p].kind \in {"response", "rejected"}
    /\ IF net[p].kind = "rejected"
       THEN FetchFailed(p)
       ELSE IF net[p].status >= 401
            THEN /\ refreshAccessToken(p)
                 /\ UNCHANGED <<site, url, requestOptions, localVars, historyVars, currentAccessToken>>
            ELSE /\ Returned(p, net[p])
                 /\ UNCHANGED currentAccessToken
    /\ UNCHANGED <<envVars, remote>>

\* the first response arrives, with a 401 to a token that is no longer the
\* stored one taken as "another call has refreshed already": the request is
\* retried with the stored token and no exchange of its own
AfterFirstFetchCoalesce(p) ==
    /\ pc[p] = "fetch1"
    /\ net[p].kind \in {"response", "rejected"}
    /\ IF net[p].kind = "rejected"
       THEN FetchFailed(p)
       ELSE IF net[p].status = 401
            THEN IF requestOptions[p].headers.Authorization # Bearer(currentAccessToken)
                 THEN LET ro == [requestOptions[p] EXCEPT
                                    !.headers.Authorization = Bearer(currentAccessToken)]
                      IN  /\ requestOptions' = [requestOptions EXCEPT ![p] = ro]
                          /\ Send(p, "fetch2", url[p], ro, http[p])
                          /\ UNCHANGED <<site, url, result, localVars, historyVars,
                                         currentAccessToken>>
                 ELSE /\ refreshAccessToken(p)
                      /\ UNCHANGED <<site, url, requestOptions, localVars, historyVars,
                                     currentAccessToken>>
            ELSE /\ Returned(p, net[p])
                 /\ UNCHANGED currentAccessToken
    /\ UNCHANGED <<envVars, remote>>

\* lines 100-106: the first response arrives
AfterFirstFetch(p) ==
    /\ pc[p] = "fetch1"
    /\ net[p].kind \in {"response", "rejected"}
    /\ IF net[p].kind = "rejected"
       THEN FetchFailed(p)
       ELSE IF net[p].status = 401
            THEN /\ refreshAccessToken(p)
                 /\ UNCHANGED <<site, url, requestOptions, localVars, historyVars, currentAccessToken>>
            ELSE /\ Returned(p, net[p])
                 /\ UNCHANGED currentAccessToken
    /\ UNCHANGED <<envVars, remote>>

\* the token endpoint's response arrives, with lines 109-112 missing: the
\* retry goes out with the headers of the first request
AfterRefreshStaleHeader(p) ==
    /\ pc[p] = "refresh"
    /\ net[p].kind \in {"response", "rejected"}
    /\ IF net[p].kind = "rejected"
       THEN FetchFailed(p)
       ELSE IF ~Ok(net[p].status)
            THEN /\ Finish(p, Error("Failed to refresh token: " \o ToString(net[p].status)
                                        \o " " \o net[p].statusText))
                 /\ UNCHANGED <<site, url, requestOptions, http, currentAccessToken>>
            ELSE /\ currentAccessToken' = net[p].body.access_token
                 /\ Send(p, "fetch2", url[p], requestOptions[p], http[p])
                 /\ UNCHANGED <<site, url, requestOptions, result>>
    /\ UNCHANGED <<envVars, remote, localVars, historyVars>>

\* the token endpoint's response arrives, with lines 64-66 missing: a failed
\* exchange is not thrown and the request is retried as it was
AfterRefreshSwallow(p) ==
    /\ pc[p] = "refresh"
    /\ net[p].kind \in {"response", "rejected"}
    /\ IF net[p].kind = "rejected"
       THEN FetchFailed(p)
       ELSE IF ~Ok(net[p].status)
            THEN /\ Send(p, "fetch2", url[p], requestOptions[p], http[p])
                 /\ UNCHANGED <<site, url, requestOptions, result, currentAccessToken>>
            ELSE LET newToken == net[p].body.access_token
                     ro == [requestOptions[p] EXCEPT !.headers.Authorization = Bearer(newToken)]
                 IN  /\ currentAccessToken' = newToken
                     /\ requestOptions' = [requestOptions EXCEPT ![p] = ro]
                     /\ Send(p, "fetch2", url[p], ro, http[p])
                     /\ UNCHANGED <<site, url, result>>
    /\ UNCHANGED <<envVars, remote, localVars, historyVars>>

\* the token endpoint's response arrives, with line 71 moved above the test
\* of line 64: a failed exchange stores the access_token its body lacks
AfterRefreshWriteFirst(p) ==
    /\ pc[p] = "refresh"
    /\ net[p].kind \in {"response", "rejected"}
    /\ IF net[p].kind = "rejected"
       THEN FetchFailed(p)
       ELSE IF ~Ok(net[p].status)
            THEN /\ currentAccessToken' = Undefined
                 /\ Finish(p, Error("Failed to refresh token: " \o ToString(net[p].status)
                                        \o " " \o net[p].statusText))
                 /\ UNCHANGED <<site, url, requestOptions, http>>
            ELSE LET newToken == net[p].body.access_token
                     ro == [requestOptions[p] EXCEPT !.headers.Authorization = Bearer(newToken)]
                 IN  /\ currentAccessToken' = newToken
                     /\ requestOptions' = [requestOptions EXCEPT ![p] = ro]
                     /\ Send(p, "fetch2", url[p], ro, http[p])
                     /\ UNCHANGED <<site, url, result>>
    /\ UNCHANGED <<envVars, remote, localVars, historyVars>>

\* the token endpoint's response arrives, with the throw of lines 64-66
\* caught by callAdGuardAPI, which then returns the 401 it had
AfterRefreshGivesBack401(p) ==
    /\ pc[p] = "refresh"
    /\ net[p].kind \in {"response", "rejected"}
    /\ IF net[p].kind = "rejected"
       THEN FetchFailed(p) /\ UNCHANGED <<envVars, remote>>
       ELSE IF ~Ok(net[p].status)
            THEN /\ Returned(p, Response(401, NoBody))
                 /\ UNCHANGED <<envVars, remote, currentAccessToken>>
            ELSE LET newToken == net[p].body.access_token
                     ro == [requestOptions[p] EXCEPT !.headers.Authorization = Bearer(newToken)]
                 IN  /\ currentAccessToken' = newToken
                     /\ requestOptions' = [requestOptions EXCEPT ![p] = ro]
                     /\ Send(p, "fetch2", url[p], ro, http[p])
                     /\ UNCHANGED <<site, url, result>>
                     /\ UNCHANGED <<envVars, remote, localVars, historyVars>>

\* lines 64-75 and 108-114: the token endpoint's response arrives
AfterRefresh(p) ==
    /\ pc[p] = "refresh"
    /\ net[p].kind \in {"response", "rejected"}
    /\ IF net[p].kind = "rejected"
       THEN FetchFailed(p)
       ELSE IF ~Ok(net[p].status)
            THEN /\ Finish(p, Error("Failed to refresh token: " \o ToString(net[p].status)
                                        \o " " \o net[p].statusText))
                 /\ UNCHANGED <<site, url, requestOptions, http, currentAccessToken>>
            ELSE LET newToken == net[p].body.access_token
                     ro == [requestOptions[p] EXCEPT !.headers.Authorization = Bearer(newToken)]
                 IN  /\ currentAccessToken' = newToken
                     /\ requestOptions' = [requestOptions EXCEPT ![p] = ro]
                     /\ Send(p, "fetch2", url[p], ro, http[p])
                     /\ UNCHANGED <<site, url, result>>
    /\ UNCHANGED <<envVars, remote, localVars, historyVars>>

\* the response to the retried request arrives, with the 401 test of line 103
\* applied to it again (a loop for the if)
AfterRetryRefreshAgain(p) ==
    /\ pc[p] = "fetch2"
    /\ net[p].kind \in {"response", "rejected"}
    /\ IF net[p].kind = "rejected"
       THEN FetchFailed(p)
       ELSE IF net[p].status = 401
            THEN /\ refreshAccessToken(p)
                 /\ UNCHANGED <<site, url, requestOptions, localVars, historyVars, currentAccessToken>>
            ELSE /\ Returned(p, net[p])
                 /\ UNCHANGED currentAccessToken
    /\ UNCHANGED <<envVars, remote>>

\* the response to the retried request arrives, with the retry of line 114
\* in a loop that ends when the status is not 401
AfterRetryResend(p) ==
    /\ pc[p] = "fetch2"
    /\ net[p].kind \in {"response", "rejected"}
    /\ IF net[p].kind = "rejected"
       THEN FetchFailed(p)
       ELSE IF net[p].status = 401
            THEN /\ Send(p, "fetch2", url[p], requestOptions[p], http[p])
                 /\ UNCHANGED <<site, url, requestOptions, result, localVars, historyVars,
                                currentAccessToken>>
            ELSE /\ Returned(p, net[p])
                 /\ UNCHANGED currentAccessToken
    /\ UNCHANGED <<envVars, remote>>

\* lines 114-117: the response to the retried request arrives
AfterRetry(p) ==
    /\ pc[p] = "fetch2"
    /\ net[p].kind \in {"response", "rejected"}
    /\ IF net[p].kind = "rejected"
       THEN FetchFailed(p)
       ELSE /\ Returned(p, net[p])
            /\ UNCHANGED currentAccessToken
    /\ UNCHANGED <<envVars, remote>>

----------------------------------------------------------------------------
(* The provider: it answers the request in flight with any status *)

InFlight(p) == net[p].kind = "request"

\* the response reaches the invocation; the history notes its status
Answer(p, response, token) ==
    /\ net' = [net EXCEPT ![p] = response]
    /\ http' = [http EXCEPT ![p][Len(http[p])].status = response.status,
                            ![p][Len(http[p])].issued = token]
    /\ UNCHANGED <<pc, site, url, requestOptions>>

\* the page of a window: its first `limit` entries
Page(window) ==
    SubSeq(window, 1, IF Len(window) < QUERY_LIMIT THEN Len(window) ELSE QUERY_LIMIT)

\* the pages of a window cut `limit` entries at a time (QueryLogResponse.pages)
Pages(window) ==
    [current |-> 1,
     total |-> IF Len(window) = 0 THEN 1 ELSE (Len(window) + QUERY_LIMIT - 1) \div QUERY_LIMIT]

\* GET /oapi/v1/query_log
ProviderQueryLog(p) ==
    /\ InFlight(p)
    /\ pc[p] \in {"fetch1", "fetch2"}
    /\ site[p] = "query_log"
    /\ \E status \in Statuses, window \in Windows :
          /\ Answer(p, Response(status,
                                IF Ok(status)
                                THEN [items |-> Page(window), pages |-> Pages(window)]
                                ELSE NoBody),
                    Undefined)
          /\ held' = [held EXCEPT ![p] = IF Ok(status) THEN Len(window) ELSE held[p]]
    /\ UNCHANGED <<envVars, currentAccessToken, remote, localVars, result, interfered, idem>>

\* GET /oapi/v1/dns_servers/{id}: a 2xx answer carries the settings as they
\* are now; this is the read of the invocation
ProviderGet(p) ==
    /\ InFlight(p)
    /\ pc[p] \in {"fetch1", "fetch2"}
    /\ site[p] = "get"
    /\ \E status \in Statuses :
          /\ Answer(p, Response(status,
                                IF Ok(status)
                                THEN [settings |-> [user_rules_settings |->
                                         [enabled |-> remote.enabled,
                                          rules |-> remote.rules,
                                          rules_count |-> Len(remote.rules)]]]
                                ELSE NoBody),
                    Undefined)
          /\ IF Ok(status)
             THEN /\ interfered' = [interfered EXCEPT ![p] = FALSE]
                  /\ idem' = [idem EXCEPT ![p] = idem[p] /\ ~interfered[p]]
             ELSE UNCHANGED <<interfered, idem>>
    /\ UNCHANGED <<envVars, currentAccessToken, remote, localVars, result, held>>

\* PUT /oapi/v1/dns_servers/{id}/settings: a 2xx answer means the settings
\* were replaced by the body
ProviderPut(p) ==
    /\ InFlight(p)
    /\ pc[p] \in {"fetch1", "fetch2"}
    /\ site[p] = "put"
    /\ \E status \in Statuses :
          /\ Answer(p, Response(status, NoBody), Undefined)
          /\ IF Ok(status)
             THEN LET s == net[p].options.body.user_rules_settings
                  IN  /\ remote' = [enabled |-> s.enabled, rules |-> s.rules]
                      /\ interfered' = [q \in Procs |-> q # p \/ interfered[q]]
             ELSE UNCHANGED <<remote, interfered>>
    /\ UNCHANGED <<envVars, currentAccessToken, localVars, result, idem, held>>

\* POST /oapi/v1/oauth_token: a 2xx answer carries an access token and
\* possibly a rotated refresh token (TokenResponse, lines 41-44)
ProviderToken(p) ==
    /\ InFlight(p)
    /\ pc[p] = "refresh"
    /\ \E status \in Statuses, token \in AccessTokens, rotated \in {Undefined, "rt1"} :
          Answer(p, Response(status,
                             IF Ok(status)
                             THEN [access_token |-> token, refresh_token |-> rotated]
                             ELSE NoBody),
                 IF Ok(status) THEN token ELSE Undefined)
    /\ UNCHANGED <<envVars, currentAccessToken, remote, localVars, result, historyVars>>

\* the request never reaches the provider: fetch rejects
NetworkError(p) ==
    /\ InFlight(p)
    /\ net' = [net EXCEPT ![p] = Rejected]
    /\ http' = [http EXCEPT ![p][Len(http[p])].status = -1]
    /\ UNCHANGED <<pc, site, url, requestOptions>>
    /\ UNCHANGED <<envVars, currentAccessToken, remote, localVars, result, historyVars>>

----------------------------------------------------------------------------

\* one step of invocation p or of the provider on p's request
Step(p) ==
    \/ \E minutes \in Minutes : GetQueryLog(p, minutes)
    \/ \E domains \in DomainLists : UnblockDomain(p, domains)
    \/ AfterFirstFetch(p)
    \/ AfterRefresh(p)
    \/ AfterRetry(p)
    \/ ProviderQueryLog(p)
    \/ ProviderGet(p)
    \/ ProviderPut(p)
    \/ ProviderToken(p)
    \/ NetworkError(p)

\* the agent invokes one tool at a time: every invocation runs as c1, the
\* next one starts when the previous one has returned or thrown
Next == Step("c1")

Spec == Init /\ [][Next]_vars

\* what two overlapping unblock invocations are asked for: c1 a domain, c2
\* another domain or the same one
ConcurrentLists(p) == IF p = "c1" THEN {<<"a.com">>} ELSE {<<"b.com">>, <<"a.com">>}

\* execute is async: an invocation started while another one is suspended at
\* an await runs between the other's steps. Each of c1 and c2 is invoked
\* once, and every step of either may come next.
StepConcurrent(p) ==
    \/ \E domains \in ConcurrentLists(p) : pc[p] = "idle" /\ UnblockDomain(p, domains)
    \/ AfterFirstFetch(p)
    \/ AfterRefresh(p)
    \/ AfterRetry(p)
    \/ ProviderGet(p)
    \/ ProviderPut(p)
    \/ ProviderToken(p)
    \/ NetworkError(p)

NextConcurrent == \E p \in Procs : StepConcurrent(p)

\* the module loaded with its three environment variables set
InitConcurrent ==
    /\ Init
    /\ ADGUARD_DNS_SERVER_ID # ""
    /\ ADGUARD_REFRESH_TOKEN # ""
    /\ currentAccessToken # ""

SpecConcurrent == InitConcurrent /\ [][NextConcurrent]_vars

----------------------------------------------------------------------------
(* Vocabulary of the properties *)

Done(p) == pc[p] = "done"

IsUnblock(p) == context[p].tool = "unblock-adguard-domain"

IsQueryLog(p) == context[p].tool = "get-adguard-query-log"

Succeeded(p) == result[p].type = "ok"

\* the read of an unblock has been processed (line 196 ran)
HasRead(p) == currentSettings[p] # NoSettings

RulesRead(p) == currentSettings[p].user_rules_settings.rules

\* the canonical rule string of a domain
Canonical(d) == "@@||" \o d \o "^"

\* exact membership of the canonical rule
Present(rules, d) == \E i \in 1..Len(rules) : rules[i] = Canonical(d)

PutIssued(p) == \E i \in 1..Len(http[p]) : http[p][i].method = "PUT"

----------------------------------------------------------------------------
(* C1: idempotence of unblock. An unblock call made right after a          *)
(* successful unblock of the same domains, with no write to the remote     *)
(* configuration in between, issues no PUT; once it has read the           *)
(* configuration it returns success, with rules_added = [] and every input *)
(* domain in already_whitelisted.                                          *)
C1_Idempotent ==
    \A p \in Procs :
        IsUnblock(p) /\ idem[p] =>
            /\ ~PutIssued(p)
            /\ HasRead(p) => Done(p) /\ Succeeded(p)
            /\ Done(p) /\ Succeeded(p) =>
                  /\ result[p].rules_added = <<>>
                  /\ \A i \in 1..Len(context[p].domains) :
                        Includes(result[p].already_whitelisted, context[p].domains[i])

\* a second unblock(["a.com", "b.com"]) has returned; no initial rule list
\* holds both rules, so the first call added one
C1_Witness ==
    \E p \in Procs :
        /\ IsUnblock(p) /\ idem[p] /\ Done(p) /\ Succeeded(p)
        /\ context[p].domains = <<"a.com", "b.com">>
        /\ Present(remote.rules, "a.com") /\ Present(remote.rules, "b.com")

----------------------------------------------------------------------------
(* C2: partition correctness of unblock. A successful unblock(D) returns   *)
(* already_whitelisted = the domains of D whose canonical rule is an exact *)
(* member of the rules just read, and rules_added = the canonical rules of *)
(* the other domains of D, both in input order.                            *)
C2_Partition ==
    \A p \in Procs :
        IsUnblock(p) /\ Done(p) /\ Succeeded(p) =>
            LET D == context[p].domains
                here(d) == Present(RulesRead(p), d)
                DPresent == SelectSeq(D, here)
                DAbsent == SelectSeq(D, LAMBDA d : ~here(d))
            IN  /\ result[p].already_whitelisted = DPresent
                /\ Len(result[p].rules_added) = Len(DAbsent)
                /\ \A i \in 1..Len(DAbsent) : result[p].rules_added[i] = Canonical(DAbsent[i])

\* a successful unblock(["b.com", "a.com"]) against rules that hold a
\* blocking rule of a.com and the whitelist rule of b.com
C2_Witness ==
    \E p \in Procs :
        /\ IsUnblock(p) /\ Done(p) /\ Succeeded(p)
        /\ context[p].domains = <<"b.com", "a.com">>
        /\ RulesRead(p) = <<"||a.com^", "@@||b.com^">>
        /\ result[p].already_whitelisted = <<"b.com">>
        /\ result[p].rules_added = <<"@@||a.com^">>

----------------------------------------------------------------------------
(* Vocabulary of the transport properties: http[p] lists the fetch calls   *)
(* of the invocation in the order they were made                           *)

Exchanges(p) == 1..Len(http[p])

IsRefresh(p, i) == http[p][i].method = "POST"

\* the request of line 114: the one made right after a refresh exchange
IsRetry(p, i) == i > 1 /\ IsRefresh(p, i - 1)

\* the request of line 100
IsFirstRequest(p, i) == ~IsRefresh(p, i) /\ ~IsRetry(p, i)

Answered(p, i) == http[p][i].status > 0

SameRequest(a, b) == a.url = b.url /\ a.method = b.method /\ a.body = b.body

\* what the tool makes of a response with a failure status to exchange i
FailureOf(p, i) ==
    Error((IF IsQueryLog(p) THEN "AdGuard API error: "
           ELSE IF http[p][i].method = "GET" THEN "Failed to get DNS server: "
           ELSE "Failed to update settings: ")
          \o ToString(http[p][i].status) \o " " \o StatusText(http[p][i].status))

\* the invocation is past the await of its last fetch call
Resumed(p) == net[p].kind \notin {"request", "response", "rejected"}

\* a first request leaves in this step
FirstRequestLeaves(p) ==
    /\ net[p].kind # "request"
    /\ net'[p].kind = "request"
    /\ pc'[p] = "fetch1"

----------------------------------------------------------------------------
(* C3: refresh and retry. When the first request of a transport call is    *)
(* answered 401 and the refresh exchange succeeds, the request is sent     *)
(* again with the token the exchange issued, the store holds that token,   *)
(* a 200 to the retry is what the tool gets (it succeeds or goes on to     *)
(* its next call), and every later first request carries the stored token. *)
C3_RefreshAndRetry ==
    /\ [](\A p \in Procs : \A i \in Exchanges(p) :
            IsRefresh(p, i) /\ Ok(http[p][i].status) /\ (i < Len(http[p]) \/ pc[p] # "refresh") =>
                /\ i > 1 /\ http[p][i - 1].status = 401
                /\ i < Len(http[p])
                /\ SameRequest(http[p][i - 1], http[p][i + 1])
                /\ http[p][i + 1].Authorization = Bearer(http[p][i].issued)
                /\ i + 1 = Len(http[p]) => currentAccessToken = http[p][i].issued
                /\ i + 1 = Len(http[p]) /\ http[p][i + 1].status = 200 /\ Resumed(p) =>
                      Done(p) /\ Succeeded(p)
                /\ i + 1 < Len(http[p]) =>
                      /\ http[p][i + 1].status = 200
                      /\ http[p][i + 2].method = "PUT"
                      /\ http[p][i + 2].Authorization = Bearer(http[p][i].issued))
    /\ [][\A p \in Procs :
            FirstRequestLeaves(p) =>
                net'[p].options.headers.Authorization = Bearer(currentAccessToken)]_vars

\* a query-log call went 401, refresh 200 issuing at2, retry 200, and returned
C3_Witness ==
    \E p \in Procs :
        /\ Done(p) /\ Succeeded(p) /\ IsQueryLog(p)
        /\ Len(http[p]) = 3
        /\ http[p][1].status = 401 /\ http[p][1].Authorization = Bearer("at0")
        /\ IsRefresh(p, 2) /\ http[p][2].status = 200 /\ http[p][2].issued = "at2"
        /\ http[p][3].status = 200
        /\ currentAccessToken = "at2"

----------------------------------------------------------------------------
(* C4: refresh failure propagation. When the first request of a transport  *)
(* call is answered 401 and the refresh exchange is answered with a        *)
(* failure status, the invocation throws "Failed to refresh token: <status *)
(* of the exchange>", the exchange is its last fetch call (no retry), and  *)
(* the stored token is still the one the first request carried.            *)
C4_RefreshFailure ==
    \A p \in Procs : \A i \in Exchanges(p) :
        IsRefresh(p, i) /\ Answered(p, i) /\ ~Ok(http[p][i].status) =>
            /\ i > 1 /\ http[p][i - 1].status = 401
            /\ i = Len(http[p])
            /\ http[p][i - 1].Authorization = Bearer(currentAccessToken)
            /\ Resumed(p) =>
                  /\ Done(p)
                  /\ result[p] = Error("Failed to refresh token: " \o ToString(http[p][i].status)
                                          \o " " \o StatusText(http[p][i].status))

\* the PUT of an unblock went 401 and the refresh exchange was answered 500
C4_Witness ==
    \E p \in Procs :
        /\ Done(p) /\ IsUnblock(p)
        /\ Len(http[p]) = 3
        /\ http[p][2].method = "PUT" /\ http[p][2].status = 401
        /\ IsRefresh(p, 3) /\ http[p][3].status = 500
        /\ result[p] = Error("Failed to refresh token: 500 Internal Server Error")

----------------------------------------------------------------------------
(* C5: retry exactly once. Within a transport call a refresh exchange      *)
(* follows a first request only, never a retry; the retry repeats the      *)
(* first request and is followed by no refresh and by no third copy of the *)
(* request; and the status answered to the retry, 401 included, is what    *)
(* the tool gets.                                                          *)
C5_RetryOnce ==
    \A p \in Procs : \A i \in Exchanges(p) :
        /\ IsRefresh(p, i) => i > 1 /\ IsFirstRequest(p, i - 1)
        /\ IsRetry(p, i) /\ ~IsRefresh(p, i) =>
              /\ i > 2 /\ SameRequest(http[p][i - 2], http[p][i])
              /\ i < Len(http[p]) =>
                    /\ Ok(http[p][i].status)
                    /\ IsFirstRequest(p, i + 1)
                    /\ ~SameRequest(http[p][i], http[p][i + 1])
              /\ i = Len(http[p]) /\ Answered(p, i) /\ Resumed(p) =>
                    /\ Done(p)
                    /\ IF Ok(http[p][i].status) THEN Succeeded(p) ELSE result[p] = FailureOf(p, i)

\* the retry of a query-log call was answered 401 again and the call threw
C5_Witness ==
    \E p \in Procs :
        /\ Done(p) /\ IsQueryLog(p)
        /\ Len(http[p]) = 3
        /\ http[p][1].status = 401
        /\ IsRefresh(p, 2) /\ http[p][2].status = 200
        /\ http[p][3].status = 401
        /\ result[p] = Error("AdGuard API error: 401 Unauthorized")

----------------------------------------------------------------------------
(* C6: no retry and no refresh outside 401. A first request answered with  *)
(* a status other than 401, or rejected by the network, is the only fetch  *)
(* call of its transport call: what follows it, if anything, is the first  *)
(* request of the tool's next call after a 2xx; the tool gets that outcome *)
(* and the stored token is the one the request carried. A refresh exchange *)
(* always comes right after a 401.                                         *)
C6_OnlyOn401 ==
    \A p \in Procs : \A i \in Exchanges(p) :
        /\ IsRefresh(p, i) => i > 1 /\ http[p][i - 1].status = 401
        /\ IsFirstRequest(p, i) /\ http[p][i].status \notin {0, 401} =>
              /\ i < Len(http[p]) =>
                    /\ Ok(http[p][i].status)
                    /\ IsFirstRequest(p, i + 1)
                    /\ ~SameRequest(http[p][i], http[p][i + 1])
              /\ i = Len(http[p]) =>
                    /\ http[p][i].Authorization = Bearer(currentAccessToken)
                    /\ Resumed(p) =>
                          /\ Done(p)
                          /\ IF http[p][i].status = -1 THEN result[p] = Error("fetch failed")
                             ELSE IF Ok(http[p][i].status) THEN Succeeded(p)
                             ELSE result[p] = FailureOf(p, i)

\* the GET of an unblock was answered 500 and the call threw after one request
C6_Witness ==
    \E p \in Procs :
        /\ Done(p) /\ IsUnblock(p)
        /\ Len(http[p]) = 1
        /\ http[p][1].status = 500
        /\ result[p] = Error("Failed to get DNS server: 500 Internal Server Error")

----------------------------------------------------------------------------
(* C7: short-circuit without write. An unblock call that read rules        *)
(* holding the canonical rule of every input domain (the empty input       *)
(* included) returns success with rules_added = [] and already_whitelisted *)
(* = the input list, has issued no PUT, and the remote configuration is    *)
(* what it read.                                                           *)
C7_ShortCircuit ==
    \A p \in Procs :
        (/\ IsUnblock(p) /\ HasRead(p)
         /\ \A i \in 1..Len(context[p].domains) : Present(RulesRead(p), context[p].domains[i])) =>
            /\ Done(p) /\ Succeeded(p)
            /\ result[p].success = TRUE
            /\ result[p].rules_added = <<>>
            /\ result[p].already_whitelisted = context[p].domains
            /\ ~PutIssued(p)
            /\ remote.rules = RulesRead(p)
            /\ remote.enabled = currentSettings[p].user_rules_settings.enabled

\* rules ["@@||a.com^"], unblock(["a.com"]) returned after its GET alone
C7_Witness ==
    \E p \in Procs :
        /\ IsUnblock(p) /\ Done(p) /\ Succeeded(p)
        /\ context[p].domains = <<"a.com">>
        /\ RulesRead(p) = <<"@@||a.com^">>
        /\ Len(http[p]) = 1
        /\ result[p].already_whitelisted = <<"a.com">>

----------------------------------------------------------------------------
(* C8: write contents of unblock. An unblock call that read rules lacking  *)
(* the canonical rule of some input domain makes one PUT call of the       *)
(* transport (one write for all new rules; the transport may send its      *)
(* request a second time after a 401). Every PUT request carries the rules *)
(* read, unchanged, followed by the canonical rules of the missing domains *)
(* in input order, and the enabled flag read; at most one is applied, and  *)
(* after a successful return the remote configuration is exactly that.     *)
C8_WriteContents ==
    \A p \in Procs :
        (/\ IsUnblock(p) /\ HasRead(p)
         /\ \E i \in 1..Len(context[p].domains) : ~Present(RulesRead(p), context[p].domains[i])) =>
            LET missing == SelectSeq(context[p].domains, LAMBDA d : ~Present(RulesRead(p), d))
                expected == RulesRead(p) \o [k \in 1..Len(missing) |-> Canonical(missing[k])]
                enabled == currentSettings[p].user_rules_settings.enabled
                puts == {i \in Exchanges(p) : http[p][i].method = "PUT"}
            IN  /\ Cardinality({i \in puts : IsFirstRequest(p, i)}) = 1
                /\ Cardinality({i \in puts : Ok(http[p][i].status)}) <= 1
                /\ \A i \in puts :
                      http[p][i].body = [user_rules_settings |-> [enabled |-> enabled, rules |-> expected]]
                /\ Done(p) /\ Succeeded(p) => remote = [enabled |-> enabled, rules |-> expected]

\* rules ["||a.com^", "@@||b.com^"] with filtering disabled: an unblock
\* wrote the two rules with "@@||a.com^" after them, filtering still disabled
C8_Witness ==
    \E p \in Procs :
        /\ IsUnblock(p) /\ Done(p) /\ Succeeded(p)
        /\ RulesRead(p) = <<"||a.com^", "@@||b.com^">>
        /\ result[p].rules_added = <<"@@||a.com^">>
        /\ remote = [enabled |-> FALSE, rules |-> <<"||a.com^", "@@||b.com^", "@@||a.com^">>]

----------------------------------------------------------------------------
(* C9: the rules an unblock call appends (the rules of its PUT after the   *)
(* rules it read) hold no rule string twice and no rule string that was in *)
(* the rules read.                                                         *)
C9_NoDuplicateAdded ==
    \A p \in Procs : \A i \in Exchanges(p) :
        IsUnblock(p) /\ HasRead(p) /\ http[p][i].method = "PUT" =>
            LET written == http[p][i].body.user_rules_settings.rules
                appended == SubSeq(written, Len(RulesRead(p)) + 1, Len(written))
            IN  /\ \A j, k \in 1..Len(appended) : j # k => appended[j] # appended[k]
                /\ \A j \in 1..Len(appended) : ~Includes(RulesRead(p), appended[j])

----------------------------------------------------------------------------
(* C10: filtering correctness of fetchBlocked. blocked_domains is, in      *)
(* order, the projection of exactly those entries of the fetched page      *)
(* whose filtering_status is REQUEST_BLOCKED or RESPONSE_BLOCKED, and      *)
(* total_queries is the number of all entries of the page.                 *)
C10_Filtering ==
    \A p \in Procs :
        IsQueryLog(p) /\ Done(p) /\ Succeeded(p) =>
            LET items == data[p].items
                hit(i) == items[i].filtering_info.filtering_status
                              \in {"REQUEST_BLOCKED", "RESPONSE_BLOCKED"}
                \* how many of the first i entries are blocked
                rank(i) == Cardinality({j \in 1..i : hit(j)})
                blocked == result[p].blocked_domains
            IN  /\ Len(blocked) = rank(Len(items))
                /\ \A i \in 1..Len(items) :
                      hit(i) =>
                          blocked[rank(i)] = [domain |-> items[i].domain,
                                              blocked_at |-> items[i].time_iso,
                                              filter_rule |-> items[i].filtering_info.filter_rule,
                                              filter_id |-> items[i].filtering_info.filter_id]
                /\ result[p].total_queries = Len(items)

\* a page of an allowed entry followed by a RESPONSE_BLOCKED one
C10_Witness ==
    \E p \in Procs :
        /\ IsQueryLog(p) /\ Done(p) /\ Succeeded(p)
        /\ Len(data[p].items) = 2
        /\ data[p].items[1].filtering_info.filtering_status = "NONE"
        /\ data[p].items[2].filtering_info.filtering_status = "RESPONSE_BLOCKED"
        /\ Len(result[p].blocked_domains) = 1
        /\ result[p].blocked_domains[1].domain = "cdn.example"
        /\ result[p].total_queries = 2

----------------------------------------------------------------------------
(* C11: total_queries is the total of the window. A successful             *)
(* get-adguard-query-log returns as total_queries the number of queries    *)
(* the provider held in the requested time window, however many they are,  *)
(* more than the 200 of the request's limit included.                      *)
C11_TotalInWindow ==
    \A p \in Procs :
        IsQueryLog(p) /\ Done(p) /\ Succeeded(p) =>
            result[p].total_queries = held[p]

----------------------------------------------------------------------------
(* C12: all-or-nothing write. When the PUT of an unblock is answered with  *)
(* a failure status and the transport gives that answer back (no retry     *)
(* follows it), the remote configuration is the one the call read, the     *)
(* call throws "Failed to update settings: <status>", and what the caller  *)
(* gets still carries the domains that were already whitelisted, when      *)
(* there are any.                                                          *)

\* the transport returned a failed PUT to the tool
PutFailed(p) ==
    /\ IsUnblock(p) /\ Done(p) /\ http[p] # <<>>
    /\ LET last == http[p][Len(http[p])]
       IN  /\ last.method = "PUT" /\ Answered(p, Len(http[p])) /\ ~Ok(last.status)
           /\ last.status # 401 \/ IsRetry(p, Len(http[p]))

C12_AllOrNothing ==
    \A p \in Procs :
        PutFailed(p) =>
            /\ remote.rules = RulesRead(p)
            /\ remote.enabled = currentSettings[p].user_rules_settings.enabled
            /\ result[p].type = "error"
            /\ result[p].message = FailureOf(p, Len(http[p])).message
            /\ alreadyWhitelisted[p] # <<>> =>
                  /\ "already_whitelisted" \in DOMAIN result[p]
                  /\ result[p].already_whitelisted = alreadyWhitelisted[p]

\* the part of C12 the code keeps: nothing is written and the write error
\* is thrown
C12_NothingWritten ==
    \A p \in Procs :
        PutFailed(p) =>
            /\ remote.rules = RulesRead(p)
            /\ remote.enabled = currentSettings[p].user_rules_settings.enabled
            /\ result[p] = FailureOf(p, Len(http[p]))

----------------------------------------------------------------------------
(* C13: write discipline of the credentials. In every step the refresh     *)
(* token keeps its value, a refresh response that carries a rotated one    *)
(* included, and the access token changes only in the step that takes a    *)
(* 2xx answer of the token endpoint, to the access_token of that answer;   *)
(* a failed exchange, a request, a query-log call and an unblock call      *)
(* leave it as it is.                                                      *)

\* invocation p takes the 2xx answer of its refresh exchange in this step
RefreshTaken(p) ==
    /\ pc[p] = "refresh"
    /\ net[p].kind = "response" /\ Ok(net[p].status)
    /\ pc'[p] = "fetch2"

C13_WriteDiscipline ==
    [][/\ ADGUARD_REFRESH_TOKEN' = ADGUARD_REFRESH_TOKEN
       /\ currentAccessToken' # currentAccessToken =>
              \E p \in Procs :
                  RefreshTaken(p) /\ currentAccessToken' = net[p].body.access_token
       /\ \A p \in Procs :
              RefreshTaken(p) => currentAccessToken' = net[p].body.access_token]_vars

\* two refreshes in one unblock: the GET's issued at1, the PUT's issued at2
\* and was taken; the store holds at2 and the refresh token is the initial one
C13_Witness ==
    \E p \in Procs :
        /\ IsUnblock(p) /\ Len(http[p]) = 6
        /\ IsRefresh(p, 2) /\ http[p][2].issued = "at1"
        /\ IsRefresh(p, 5) /\ http[p][5].issued = "at2"
        /\ currentAccessToken = "at2"
        /\ ADGUARD_REFRESH_TOKEN = "rt0"

----------------------------------------------------------------------------
(* C14: lost update. Two overlapping unblock calls for different domains   *)
(* that both read the configuration before either wrote it, and both       *)
(* return success with their rule in rules_added, leave a remote rule list *)
(* that is what one of them wrote: it holds that one's rule and lacks the  *)
(* rule the other reported as added.                                       *)

\* p returned success with the rule of its one domain in rules_added
AddedOwnRule(p) ==
    /\ IsUnblock(p) /\ Done(p) /\ Succeeded(p)
    /\ Len(context[p].domains) = 1
    /\ result[p].rules_added = <<Canonical(context[p].domains[1])>>

\* p and q both read before either of their writes was applied: each one's
\* read was followed by the other's write
BothReadFirst(p, q) == interfered[p] /\ interfered[q]

C14_LostUpdate ==
    \A p \in Procs : \A q \in Procs \ {p} :
        /\ AddedOwnRule(p) /\ AddedOwnRule(q)
        /\ context[p].domains # context[q].domains
        /\ BothReadFirst(p, q)
        => \E w \in {p, q} : \E l \in {p, q} \ {w} :
              /\ remote.rules = RulesRead(w) \o newRules[w]
              /\ Present(remote.rules, context[w].domains[1])
              /\ ~Present(remote.rules, context[l].domains[1])

\* both calls returned success, c1 with the rule of a.com and c2 with the
\* rule of b.com in rules_added, and the remote list lacks the rule of a.com
C14_Witness ==
    /\ AddedOwnRule("c1") /\ AddedOwnRule("c2")
    /\ context["c1"].domains = <<"a.com">> /\ context["c2"].domains = <<"b.com">>
    /\ BothReadFirst("c1", "c2")
    /\ ~Present(remote.rules, "a.com")
    /\ Present(remote.rules, "b.com")

----------------------------------------------------------------------------
(* C15: concurrent refresh is uncoordinated, last write wins. With two     *)
(* calls overlapping, every call whose first request was answered 401      *)
(* makes a refresh exchange of its own right after it, whatever the other  *)
(* call has refreshed meanwhile; its retry carries the token its own       *)
(* exchange issued; every exchange taken overwrites the stored token with  *)
(* the token it issued, so the store ends with the token of the exchange   *)
(* taken last, which is one of the tokens issued.                          *)

\* the tokens issued by the refresh exchanges that were taken
TokensTaken ==
    UNION {{http[p][i].issued : i \in {j \in Exchanges(p) :
                /\ IsRefresh(p, j) /\ Ok(http[p][j].status)
                /\ (j < Len(http[p]) \/ pc[p] # "refresh")}} : p \in Procs}

C15_UncoordinatedRefresh ==
    /\ [](/\ \A p \in Procs : \A i \in Exchanges(p) :
               /\ IsFirstRequest(p, i) /\ http[p][i].status = 401
                     /\ (i < Len(http[p]) \/ pc[p] # "fetch1") =>
                        i < Len(http[p]) /\ IsRefresh(p, i + 1)
               /\ IsRefresh(p, i) /\ Ok(http[p][i].status) /\ i < Len(http[p]) =>
                        http[p][i + 1].Authorization = Bearer(http[p][i].issued)
          /\ TokensTaken # {} => currentAccessToken \in TokensTaken)
    /\ [][\A p \in Procs :
            RefreshTaken(p) =>
                /\ currentAccessToken' = net[p].body.access_token
                /\ net'[p].kind = "request"
                /\ net'[p].options.headers.Authorization = Bearer(net[p].body.access_token)]_vars

\* c1 and c2 both sent their GET with the initial token and both got 401;
\* c1's exchange issued at1 and c2's at2, each retried with its own, both
\* calls are over and the store holds at1: c1's exchange was taken last
C15_Witness ==
    /\ Done("c1") /\ Done("c2")
    /\ \A p \in Procs :
          /\ Len(http[p]) >= 3
          /\ http[p][1].Authorization = Bearer("at0") /\ http[p][1].status = 401
          /\ IsRefresh(p, 2) /\ Ok(http[p][2].status)
          /\ http[p][3].Authorization = Bearer(http[p][2].issued)
    /\ http["c1"][2].issued = "at1" /\ http["c2"][2].issued = "at2"
    /\ http["c1"][3].status = 404 /\ http["c2"][3].status = 404
    /\ currentAccessToken = "at1"

----------------------------------------------------------------------------
(* C16: what the caller sees when the refresh exchange is rejected          *)

\* the refresh exchange of p, its last fetch call, was answered with a
\* failure status after a 401, and p is past it
RefreshRejected(p) ==
    /\ Len(http[p]) >= 2
    /\ IsRefresh(p, Len(http[p]))
    /\ Answered(p, Len(http[p])) /\ ~Ok(http[p][Len(http[p])].status)
    /\ http[p][Len(http[p]) - 1].status = 401
    /\ Resumed(p)

\* C16 as claimed: when the refresh exchange is rejected after a 401, the
\* caller ends with the original 401: execute throws what it throws for a
\* 401 response of the request that triggered the refresh.
C16_Original401Seen ==
    \A p \in Procs :
        RefreshRejected(p) =>
            Done(p) /\ result[p] = FailureOf(p, Len(http[p]) - 1)

\* C16 as amended: when the refresh exchange is rejected after a 401, the
\* caller ends with the refresh failure: execute throws "Failed to refresh
\* token: <status> <statusText>" with the status the token endpoint
\* answered, which is not what it throws for the original 401, and the
\* original request is not sent again.
C16_RefreshFailureSeen ==
    \A p \in Procs :
        RefreshRejected(p) =>
            /\ Done(p)
            /\ result[p].type = "error"
            /\ result[p].message = "Failed to refresh token: "
                                      \o ToString(http[p][Len(http[p])].status) \o " "
                                      \o StatusText(http[p][Len(http[p])].status)
            /\ result[p] # FailureOf(p, Len(http[p]) - 1)

\* a query-log call: the query answered 401, the token endpoint 401 as well
C16_Witness ==
    \E p \in Procs :
        /\ IsQueryLog(p) /\ RefreshRejected(p)
        /\ Len(http[p]) = 2
        /\ http[p][2].status = 401
        /\ result[p] = Error("Failed to refresh token: 401 Unauthorized")

----------------------------------------------------------------------------
(* C17: configuration faults fail fast, without network traffic.           *)
(* While the access token is absent a transport call throws before any     *)
(* request is issued: no invocation has a fetch call, none is suspended,   *)
(* and a query-log call or an unblock with a server identifier is over     *)
(* with the token error, the refresh token being set or not. While the     *)
(* refresh token is absent no request goes to the token endpoint, and a    *)
(* request answered 401 is the last fetch call of its invocation, which    *)
(* is over with the refresh-token error. An unblock made while the server  *)
(* identifier is absent is over with the identifier error and has no       *)
(* fetch call. None of the three errors is thrown in a step that changes   *)
(* the stored token or the remote configuration, and an invocation that    *)
(* ended with one has had no write applied.                                *)

NoAccessToken == Error("ADGUARD_API_TOKEN environment variable is not set")

NoRefreshToken ==
    Error("ADGUARD_REFRESH_TOKEN environment variable is not set. Cannot refresh token.")

NoServerId == Error("ADGUARD_DNS_SERVER_ID environment variable is not set")

ConfigurationErrors == {NoAccessToken, NoRefreshToken, NoServerId}

\* a PUT of p was answered 2xx
WriteApplied(p) ==
    \E i \in Exchanges(p) : http[p][i].method = "PUT" /\ Ok(http[p][i].status)

C17_FailFast ==
    /\ [](\A p \in Procs :
            /\ currentAccessToken = "" =>
                  /\ http[p] = <<>>
                  /\ pc[p] \in {"idle", "done"}
                  /\ IsQueryLog(p) => result[p] = NoAccessToken
                  /\ IsUnblock(p) /\ ADGUARD_DNS_SERVER_ID # "" => result[p] = NoAccessToken
            /\ ADGUARD_REFRESH_TOKEN = "" =>
                  /\ \A i \in Exchanges(p) : ~IsRefresh(p, i)
                  /\ \A i \in Exchanges(p) :
                        http[p][i].status = 401 /\ (i < Len(http[p]) \/ Resumed(p)) =>
                            i = Len(http[p]) /\ Done(p) /\ result[p] = NoRefreshToken
            /\ IsUnblock(p) /\ ADGUARD_DNS_SERVER_ID = "" =>
                  Done(p) /\ result[p] = NoServerId /\ http[p] = <<>>
            /\ result[p] \in ConfigurationErrors => Done(p) /\ ~WriteApplied(p))
    /\ [][\A p \in Procs :
            result'[p] \in ConfigurationErrors /\ pc[p] # "done" =>
                /\ currentAccessToken' = currentAccessToken
                /\ remote' = remote
                /\ http'[p] \in {http[p], <<>>}]_vars

\* an unblock with every variable set but the refresh token: its GET was
\* answered 401 and it is over with the refresh-token error after that one
\* request
C17_Witness ==
    \E p \in Procs :
        /\ IsUnblock(p) /\ Done(p)
        /\ ADGUARD_REFRESH_TOKEN = "" /\ ADGUARD_DNS_SERVER_ID # ""
        /\ Len(http[p]) = 1 /\ http[p][1].status = 401
        /\ result[p] = NoRefreshToken

----------------------------------------------------------------------------
(* C18: the remote rule list only grows by appending. With the             *)
(* invocations running one after the other and no other writer, every step *)
(* leaves the enabled flag as it is and the rule list a prefix of the new  *)
(* rule list, whether the call fails or succeeds; and once an unblock has  *)
(* returned success the canonical rule of each of its input domains is a   *)
(* member of the remote rule list.                                         *)

IsPrefix(s, t) == Len(s) <= Len(t) /\ SubSeq(t, 1, Len(s)) = s

C18_AppendOnly ==
    /\ [][remote'.enabled = remote.enabled /\ IsPrefix(remote.rules, remote'.rules)]_vars
    /\ [](\A p \in Procs :
            IsUnblock(p) /\ Done(p) /\ Succeeded(p) =>
                \A i \in 1..Len(context[p].domains) :
                    Present(remote.rules, context[p].domains[i]))

\* filtering is disabled and the list held a blocking rule of a.com and the
\* rule of b.com; a successful unblock(["a.com"]) has appended the rule of a.com
C18_Witness ==
    \E p \in Procs :
        /\ IsUnblock(p) /\ Done(p) /\ Succeeded(p)
        /\ context[p].domains = <<"a.com">>
        /\ remote = [enabled |-> FALSE, rules |-> <<"||a.com^", "@@||b.com^", "@@||a.com^">>]

----------------------------------------------------------------------------
(* C19: bounded requests. Whatever the provider answers, a query-log       *)
(* invocation makes at most 3 fetch calls and an unblock at most 6; a      *)
(* transport call makes at most one refresh exchange and sends its         *)
(* request at most twice; a PUT is issued only when the last GET before    *)
(* it was answered 2xx; and an invocation that is not waiting for an       *)
(* answer is over.                                                         *)

\* the fetch calls of p that carry `method`
Requests(p, method) == {i \in Exchanges(p) : http[p][i].method = method}

\* the refresh exchanges of the transport call of p whose request carries `method`
RefreshesOf(p, method) ==
    {i \in Exchanges(p) : IsRefresh(p, i) /\ i > 1 /\ http[p][i - 1].method = method}

C19_BoundedRequests ==
    \A p \in Procs :
        /\ IsQueryLog(p) =>
              /\ Len(http[p]) <= 3
              /\ Requests(p, "PUT") = {}
        /\ IsUnblock(p) => Len(http[p]) <= 6
        /\ \A method \in {"GET", "PUT"} :
              /\ Cardinality(Requests(p, method)) <= 2
              /\ Cardinality(RefreshesOf(p, method)) <= 1
        /\ Cardinality(Requests(p, "POST")) =
              Cardinality(RefreshesOf(p, "GET")) + Cardinality(RefreshesOf(p, "PUT"))
        /\ \A i \in Requests(p, "PUT") :
              \E j \in Requests(p, "GET") :
                  /\ j < i /\ Ok(http[p][j].status)
                  /\ \A k \in Requests(p, "GET") : k <= j
        /\ pc[p] # "idle" /\ Resumed(p) => Done(p)

\* an unblock that made its six fetch calls and is over
C19_Witness ==
    \E p \in Procs :
        /\ IsUnblock(p) /\ Done(p)
        /\ Len(http[p]) = 6
        /\ [i \in 1..6 |-> http[p][i].method] = <<"GET", "POST", "GET", "PUT", "POST", "PUT">>
        /\ http[p][6].status = 401

----------------------------------------------------------------------------
(* C20: the two output lists of unblock cover the input. On every          *)
(* successful return, for input lists that repeat a domain too, the        *)
(* lengths of rules_added and already_whitelisted add up to the length of  *)
(* domains, every domain occurs in the input as often as in                *)
(* already_whitelisted plus, as its canonical rule, in rules_added, and in *)
(* one of the two only; and the success message names as many domains as   *)
(* rules_added has rules (none when it reports that all are whitelisted).  *)

Count(arr, x) == Cardinality({i \in 1..Len(arr) : arr[i] = x})

\* the message of line 245 for a list of names, of line 216 for none
MessageNaming(names, n) ==
    IF names = <<>>
    THEN "All " \o ToString(n) \o " domain(s) are already whitelisted"
    ELSE "Successfully added " \o ToString(Len(names)) \o " whitelist rule(s) for: " \o Join(names)

C20_OutputsCoverInput ==
    \A p \in Procs :
        IsUnblock(p) /\ Done(p) /\ Succeeded(p) =>
            LET D == context[p].domains
                added == result[p].rules_added
                aw == result[p].already_whitelisted
            IN  /\ Len(added) + Len(aw) = Len(D)
                /\ \A d \in Domains :
                      /\ Count(D, d) = Count(aw, d) + Count(added, Canonical(d))
                      /\ Count(aw, d) = 0 \/ Count(added, Canonical(d)) = 0
                /\ \E names \in SeqsUpTo(Domains, Len(D)) :
                      /\ Len(names) = Len(added)
                      /\ \A i \in 1..Len(names) : Canonical(names[i]) = added[i]
                      /\ result[p].message = MessageNaming(names, Len(D))

\* unblock(["a.com", "a.com"]) against a list without the rule of a.com
C20_Witness ==
    \E p \in Procs :
        /\ IsUnblock(p) /\ Done(p) /\ Succeeded(p)
        /\ context[p].domains = <<"a.com", "a.com">>
        /\ result[p].rules_added = <<"@@||a.com^", "@@||a.com^">>
        /\ result[p].already_whitelisted = <<>>
        /\ result[p].message = "Successfully added 2 whitelist rule(s) for: a.com, a.com"

====
